---- MODULE Spec2Model ----
(***************************************************************************)
(* A model of aeneas.audiofile.AudioFile: the sample buffer (capacity and  *)
(* length bookkeeping, append, reverse, trim), the lazy loader             *)
(* (read_samples_from_file), the property reader (read_properties) and     *)
(* the writer.                                                             *)
(*                                                                         *)
(* Representation.                                                         *)
(*  - An optional value is a sequence of length 0 (None) or 1.             *)
(*  - A float64 sample f is the integer f * SampleUnit; every sample the   *)
(*    model handles is a multiple of 1 / SampleUnit, so this is exact.     *)
(*  - A TimeValue (a decimal.Decimal) x is the integer x * DecScale, and   *)
(*    every arithmetic result is rounded half-even to DecPrec significant  *)
(*    digits, as the decimal context does (with 28 digits).                *)
(***************************************************************************)
EXTENDS Integers, Sequences, FiniteSets, TLC

VARIABLES
    file_path,          \* self.file_path: None or a path
    file_format,        \* self.file_format: None or <<codec, channels, rate>>
    file_size,          \* self.file_size
    audio_length,       \* self.audio_length: None or a TimeValue
    audio_format,       \* self.audio_format
    audio_sample_rate,  \* self.audio_sample_rate
    audio_channels,     \* self.audio_channels
    samples_capacity,   \* self.__samples_capacity
    samples_length,     \* self.__samples_length
    samples,            \* self.__samples: None or the numpy array
    safety_checks,      \* self.rconf.safety_checks
    source,             \* the file at file_path, as the collaborators see it
    source_deleted,     \* a delete was issued for the file at file_path
    tmp_files,          \* temporary WAVE files created and not yet deleted
    last,               \* the last call: its outcome, what it did, and
                        \* what add_samples was given
    appended            \* what add_samples was given since the buffer was
                        \* empty, while nothing else was called; else None

handle == <<file_path, file_format, file_size, audio_length, audio_format,
            audio_sample_rate, audio_channels, samples_capacity,
            samples_length, samples>>
world == <<source_deleted, tmp_files>>
vars == <<handle, world, safety_checks, source, last, appended>>

-----------------------------------------------------------------------------
(* Bounds of the model *)

MaxLen == 2         \* add_samples is called while the length stays <= MaxLen
MaxCapacity == 2    \* largest capacity passed to preallocate_memory
DecPrec == 3        \* significant digits of the decimal context

-----------------------------------------------------------------------------
(* Optional values *)

None == << >>
Some(x) == << x >>
Val(o) == o[1]

Min(a, b) == IF a <= b THEN a ELSE b
Max(a, b) == IF a >= b THEN a ELSE b

-----------------------------------------------------------------------------
(* TimeValue: decimal arithmetic with DecPrec significant digits *)

RECURSIVE Pow10(_)
Pow10(n) == IF n <= 0 THEN 1 ELSE 10 * Pow10(n - 1)

DecScale == Pow10(DecPrec + 1)

RECURSIVE Digits(_)
Digits(w) == IF w < 10 THEN 1 ELSE 1 + Digits(w \div 10)

\* n / d rounded to the nearest integer, ties to even (ROUND_HALF_EVEN)
RoundHalfEven(n, d) ==
    LET q == n \div d
        r == n % d
    IN  IF 2 * r < d THEN q
        ELSE IF 2 * r > d THEN q + 1
        ELSE IF q % 2 = 0 THEN q ELSE q + 1

\* an exact non-negative result rounded to the context precision
DecRound(w) ==
    IF Digits(w) <= DecPrec THEN w
    ELSE LET u == Pow10(Digits(w) - DecPrec) IN RoundHalfEven(w, u) * u

\* TimeValue(n) for an integer n
TimeValue(n) == n * DecScale

\* TimeValue(n) / TimeValue(d) for integers n >= 0, d > 0
DecDiv(n, d) ==
    LET floor == (n * DecScale) \div d
        u == Pow10(Max(Digits(floor) - DecPrec, 0))
    IN  RoundHalfEven(n * DecScale, d * u) * u

DecMul(x, k) == DecRound(x * k)      \* TimeValue * int
DecAdd(x, y) == DecRound(x + y)
DecSub(x, y) == DecRound(x - y)      \* used with x >= y only
DecInt(x) == x \div DecScale         \* int(x) for x >= 0: truncation

-----------------------------------------------------------------------------
(* numpy *)

\* numpy.zeros(n)
Zeros(n) == [i \in 1..n |-> 0]

\* numpy.resize(a, n): a one-dimensional array of n values, filled with
\* repeated copies of a; zeros when a is empty
NumpyResize(a, n) ==
    IF Len(a) = 0 THEN Zeros(n)
    ELSE [i \in 1..n |-> a[((i - 1) % Len(a)) + 1]]

\* a[::-1], numpy.flipud(a)
Flip(a) == [i \in 1..Len(a) |-> a[Len(a) + 1 - i]]

\* a[b:e] for 0 <= b, 0 <= e: both ends are clipped to the array
Slice(a, b, e) == SubSeq(a, Min(b, Len(a)) + 1, Min(e, Len(a)))

\* the array a after a[b:e] = v, with len(v) = len(a[b:e])
SetSlice(a, b, v) ==
    [i \in 1..Len(a) |-> IF i > b /\ i <= b + Len(v) THEN v[i - b] ELSE a[i]]
-----------------------------------------------------------------------------
(* Configuration and collaborators *)

RconfSampleRate == 2    \* self.rconf.sample_rate
Int16Scale == 32768     \* the factor between a float sample and its int16 value
SampleUnit == 2 * Int16Scale    \* samples are multiples of half an int16 step

\* the canonical triple ("pcm_s16le", 1, self.rconf.sample_rate)
CanonicalFormat == <<"pcm_s16le", 1, RconfSampleRate>>

\* what a caller may pass as file_format
FileFormats ==
    { None, Some(CanonicalFormat), Some(<<"pcm_s16le", 1, RconfSampleRate + 1>>) }

\* The file at file_path, as seen by the collaborators: what scipywavread
\* decodes from it (rate, pcm), what it decodes from the file ffmpeg converts
\* it to (conv_pcm, at RconfSampleRate), and what ffprobe and gf.file_size
\* report about it.
CanonicalWave ==
    [rate |-> RconfSampleRate, pcm |-> <<16384, -32768>>,
     conv_pcm |-> <<16384, -32768>>, size |-> 48, duration |-> TimeValue(1),
     codec |-> "pcm_s16le", channels |-> 1]
OtherRateWave ==
    [rate |-> RconfSampleRate + 1, pcm |-> <<16384, -32768, 16384>>,
     conv_pcm |-> <<16384, -32768>>, size |-> 50, duration |-> TimeValue(1),
     codec |-> "pcm_s16le", channels |-> 1]
Sources == { CanonicalWave, OtherRateWave }

\* The outcomes of the collaborators during one call:
\*   readable: gf.file_can_be_read(self.file_path)
\*   convert:  FFMPEGWrapper.convert returns, or raises
\*   decode:   scipywavread returns, or raises ValueError
\*   probe:    FFPROBEWrapper.read_properties returns, or raises
\*   encode:   scipywavwrite returns, or raises
\*   saturate: how the float64 -> int16 cast treats a value out of range
Env(readable, convert, decode, probe, encode, saturate) ==
    [ readable |-> readable, convert |-> convert, decode |-> decode,
      probe |-> probe, encode |-> encode, saturate |-> saturate ]

\* every collaborator succeeds
EnvOk == Env(TRUE, "ok", "ok", "ok", "ok", FALSE)

-----------------------------------------------------------------------------
(* The handle and its surroundings during a call, as one record.  exc is   *)
(* the exception the call ended with ("" when it returned), load tells     *)
(* whether and how read_samples_from_file ran, realloc whether add_samples *)
(* called preallocate_memory, ret is the value audio_samples returns, out  *)
(* is what write hands to scipywavwrite.                                   *)

Self ==
    [ file_path |-> file_path, file_format |-> file_format,
      file_size |-> file_size, audio_length |-> audio_length,
      audio_format |-> audio_format, audio_sample_rate |-> audio_sample_rate,
      audio_channels |-> audio_channels, samples_capacity |-> samples_capacity,
      samples_length |-> samples_length, samples |-> samples,
      source_deleted |-> source_deleted, tmp_files |-> tmp_files,
      exc |-> "", load |-> "no", realloc |-> FALSE, ret |-> None, out |-> None ]

\* self.log_exc(message, None, True, raise_type) and raise
Raise(w, e) == [w EXCEPT !.exc = e]

\* gf.delete_file(tmp_handler, tmp_file_path) where the path is a temporary file
DeleteTmp(w) == [w EXCEPT !.tmp_files = w.tmp_files - 1]

\* gf.delete_file(tmp_handler, tmp_file_path) where the path is self.file_path
DeleteSource(w) == [w EXCEPT !.source_deleted = TRUE]

update_length(w) ==
    IF w.audio_sample_rate # None /\ w.samples # None
    THEN [w EXCEPT !.audio_length =
              Some(DecDiv(w.samples_length, Val(w.audio_sample_rate)))]
    ELSE w

-----------------------------------------------------------------------------
(* preallocate_memory, minimize_memory, add_samples, clear_data *)

\* a slip: the test is off by one
NegativeCapacity_OffByOne(capacity) == capacity < -1

NegativeCapacity(capacity) == capacity < 0

\* the array preallocate_memory leaves in self.__samples
PreallocatedSamples(old, capacity) ==
    IF old = None THEN Zeros(capacity) ELSE NumpyResize(Val(old), capacity)

\* a slip: one sample less is kept
PreallocatedLength_DropsOne(old, length, capacity) ==
    IF old = None THEN 0 ELSE Max(0, Min(length - 1, capacity))

\* the length preallocate_memory leaves in self.__samples_length
PreallocatedLength(old, length, capacity) ==
    IF old = None THEN 0 ELSE Min(length, capacity)

preallocate_memory(w, capacity) ==
    IF NegativeCapacity(capacity) THEN Raise(w, "ValueError")
    ELSE [w EXCEPT
            !.samples = Some(PreallocatedSamples(w.samples, capacity)),
            !.samples_length =
                PreallocatedLength(w.samples, w.samples_length, capacity),
            !.samples_capacity = capacity]

minimize_memory(w) ==
    IF w.samples = None THEN w ELSE preallocate_memory(w, w.samples_length)

\* a slip: the buffer also grows when it is exactly full
NeedsMemory_WhenFull(w, future_length) ==
    w.samples = None \/ w.samples_capacity <= future_length

\* add_samples calls preallocate_memory first
NeedsMemory(w, future_length) ==
    w.samples = None \/ w.samples_capacity < future_length

\* the capacity add_samples asks for
GrownCapacity(future_length) == 2 * future_length

\* a slip: reverse is ignored
Appended_NeverReversed(new, rev) == new

\* what add_samples stores: samples[::-1] or samples[:]
Appended(new, rev) == IF rev THEN Flip(new) ELSE new

add_samples(w, new, rev) ==
    LET current_length == w.samples_length
        future_length == current_length + Len(new)
        grow == NeedsMemory(w, future_length)
        w1 == IF grow
              THEN [preallocate_memory(w, GrownCapacity(future_length))
                      EXCEPT !.realloc = TRUE]
              ELSE w
        w2 == [w1 EXCEPT
                 !.samples = Some(SetSlice(Val(w1.samples), current_length,
                                           Appended(new, rev))),
                 !.samples_length = future_length]
    IN  update_length(w2)

clear_data(w) ==
    [w EXCEPT !.samples_capacity = 0, !.samples_length = 0, !.samples = None]

-----------------------------------------------------------------------------
(* read_samples_from_file *)

\* gf.file_can_be_read(self.file_path)
CanBeRead(w, env) == w.file_path # None /\ ~w.source_deleted /\ env.readable

\* a slip: safety_checks is not consulted
ConvertAudioFile_IgnoresChecks(fmt, checks) ==
    fmt = None \/ fmt # Some(CanonicalFormat)

\* convert_audio_file
ConvertAudioFile(fmt, checks) ==
    fmt = None \/ (checks /\ fmt # Some(CanonicalFormat))

\* samples.astype("float64") / 32768
Normalized(pcm) == [i \in 1..Len(pcm) |-> pcm[i] * (SampleUnit \div Int16Scale)]

\* a slip: the file at file_path is decoded, also after a conversion
Decoded_AlwaysSource(convert) == [rate |-> source.rate, pcm |-> source.pcm]

\* scipywavread(tmp_file_path): the temporary file when the file was
\* converted, self.file_path otherwise
Decoded(convert) ==
    IF convert THEN [rate |-> RconfSampleRate, pcm |-> source.conv_pcm]
    ELSE [rate |-> source.rate, pcm |-> source.pcm]

\* gf.delete_file(tmp_handler, tmp_file_path)
DeleteFile(w, convert) == IF convert THEN DeleteTmp(w) ELSE DeleteSource(w)

\* a slip: the file that was read is always deleted
DeleteAfterRead_Always(convert) == TRUE

\* the condition under which the file that was read is deleted
DeleteAfterRead(convert) == convert

\* a slip: the buffer is emptied before the file is decoded
ReadWave_EmptiesFirst(w, convert, env) ==
    LET w1 == [w EXCEPT !.audio_format = Some("pcm16"),
                        !.audio_channels = Some(1),
                        !.samples = Some(<< >>),
                        !.samples_capacity = 0,
                        !.samples_length = 0]
        d == Decoded(convert)
        w2 == update_length(
                [w1 EXCEPT !.audio_sample_rate = Some(d.rate),
                           !.samples = Some(Normalized(d.pcm)),
                           !.samples_capacity = Len(d.pcm),
                           !.samples_length = Len(d.pcm)])
        w3 == IF DeleteAfterRead(convert) THEN DeleteFile(w2, convert) ELSE w2
    IN  IF env.decode = "ValueError"
        THEN Raise(w1, "AudioFileUnsupportedFormatError")
        ELSE update_length(w3)

\* the try block that reads the samples, and what follows it
ReadWave(w, convert, env) ==
    LET w1 == [w EXCEPT !.audio_format = Some("pcm16"),
                        !.audio_channels = Some(1)]
        d == Decoded(convert)
        w2 == update_length(
                [w1 EXCEPT !.audio_sample_rate = Some(d.rate),
                           !.samples = Some(Normalized(d.pcm)),
                           !.samples_capacity = Len(d.pcm),
                           !.samples_length = Len(d.pcm)])
        w3 == IF DeleteAfterRead(convert) THEN DeleteFile(w2, convert) ELSE w2
    IN  IF env.decode = "ValueError"
        THEN Raise(w1, "AudioFileUnsupportedFormatError")
        ELSE update_length(w3)

read_samples_from_file(w, env) ==
    IF ~CanBeRead(w, env) THEN Raise([w EXCEPT !.load = "unreadable"], "OSError")
    ELSE IF ConvertAudioFile(w.file_format, safety_checks)
    THEN LET w1 == [w EXCEPT !.tmp_files = w.tmp_files + 1, !.load = "convert"]
         IN  CASE env.convert = "FFMPEGPathError" ->
                    Raise(DeleteTmp(w1), "AudioFileConverterError")
               [] env.convert = "OSError" ->
                    Raise(DeleteTmp(w1), "AudioFileUnsupportedFormatError")
               [] OTHER ->
                    ReadWave([w1 EXCEPT !.file_format = Some(CanonicalFormat)],
                             TRUE, env)
    ELSE ReadWave([w EXCEPT !.load = "direct"], FALSE, env)

-----------------------------------------------------------------------------
(* read_properties *)

\* a slip: the properties are taken from a load of the samples
read_properties_Loading(w, env) ==
    LET w1 == read_samples_from_file(w, env)
    IN  IF w1.exc # "" THEN w1
        ELSE [w1 EXCEPT !.file_size = Some(source.size)]

read_properties(w, env) ==
    IF ~CanBeRead(w, env) THEN Raise(w, "OSError")
    ELSE LET w1 == [w EXCEPT !.file_size = Some(source.size)]
         IN  CASE env.probe = "FFPROBEPathError" ->
                    Raise(w1, "AudioFileProbeError")
               [] env.probe = "FFPROBEUnsupportedFormatError" ->
                    Raise(w1, "AudioFileUnsupportedFormatError")
               [] OTHER ->
                    [w1 EXCEPT !.audio_length = Some(source.duration),
                               !.audio_format = Some(source.codec),
                               !.audio_sample_rate = Some(source.rate),
                               !.audio_channels = Some(source.channels)]

-----------------------------------------------------------------------------
(* audio_samples, reverse, write *)

\* a slip: the path is not looked at
NotInitialized_NoPathTest(w) == w.samples = None

\* the test at the top of audio_samples, reverse and write
NotInitialized(w) == w.samples = None /\ w.file_path = None

\* a slip: the samples are loaded whenever there is a path
MustLoad_WheneverPath(w) == w.file_path # None

\* the samples are loaded first
MustLoad(w) == w.samples = None /\ w.file_path # None

EnsureSamples(w, env) ==
    IF NotInitialized(w) THEN Raise(w, "AudioFileNotInitializedError")
    ELSE IF MustLoad(w) THEN read_samples_from_file(w, env)
    ELSE w

\* self.__samples[0:self.__samples_length]
View(w) == Slice(Val(w.samples), 0, w.samples_length)

audio_samples(w, env) ==
    LET w1 == EnsureSamples(w, env)
    IN  IF w1.exc # "" THEN w1 ELSE [w1 EXCEPT !.ret = Some(View(w1))]

\* a slip: the whole storage is reversed
reverse_WholeStorage(w, env) ==
    LET w1 == EnsureSamples(w, env)
    IN  IF w1.exc # "" THEN w1
        ELSE [w1 EXCEPT !.samples = Some(Flip(Val(w1.samples)))]

reverse(w, env) ==
    LET w1 == EnsureSamples(w, env)
    IN  IF w1.exc # "" THEN w1
        ELSE [w1 EXCEPT !.samples =
                  Some(SetSlice(Val(w1.samples), 0, Flip(View(w1))))]

\* a float64 product cast to an integer: truncation towards zero
Trunc(n, d) == IF n >= 0 THEN n \div d ELSE -((-n) \div d)

\* astype("int16") of one value: a value outside the int16 range wraps
\* around or saturates, as the platform's cast does
AsInt16(v, saturate) ==
    IF v >= -Int16Scale /\ v < Int16Scale THEN v
    ELSE IF saturate THEN (IF v < 0 THEN -Int16Scale ELSE Int16Scale - 1)
    ELSE ((v + Int16Scale) % (2 * Int16Scale)) - Int16Scale

\* (self.audio_samples * 32768).astype("int16")
WaveData(view, saturate) ==
    [i \in 1..Len(view) |->
        AsInt16(Trunc(view[i], SampleUnit \div Int16Scale), saturate)]

write(w, env) ==
    LET w1 == EnsureSamples(w, env)
    IN  IF w1.exc # "" THEN w1
        ELSE IF w1.audio_sample_rate = None \/ env.encode # "ok"
        THEN Raise(w1, "OSError")
        ELSE [w1 EXCEPT !.out =
                  Some([rate |-> Val(w1.audio_sample_rate),
                        data |-> WaveData(View(w1), env.saturate)])]

-----------------------------------------------------------------------------
(* trim *)

\* begin, clamped to [0, audio_length]
TrimBegin(begin, dur) ==
    Min(Max(0, IF begin = None THEN 0 ELSE Val(begin)), dur)

\* length, clamped to [0, audio_length - begin]
TrimLength(length, b, dur) ==
    Min(Max(0, IF length = None THEN DecSub(dur, b) ELSE Val(length)),
        DecSub(dur, b))

\* a slip: the product is rounded to the nearest integer
SampleIndex_Rounded(t, rate) == RoundHalfEven(DecMul(t, rate), DecScale)

\* int(t * self.audio_sample_rate)
SampleIndex(t, rate) == DecInt(DecMul(t, rate))

\* self.__samples[0:new_idx] = self.__samples[begin_index:end_index]
\* and what follows it
TrimSlice(w, begin_index, end_index) ==
    LET a == Val(w.samples)
        new_idx == end_index - begin_index
        target == Min(new_idx, Len(a))
        slice == Slice(a, begin_index, end_index)
        done(v) == update_length(
                     [w EXCEPT !.samples = Some(SetSlice(a, 0, v)),
                               !.samples_length = new_idx])
    IN  IF Len(slice) = target THEN done(slice)
        ELSE IF Len(slice) = 1 THEN done([i \in 1..target |-> slice[1]])
        ELSE Raise(w, "ValueError")

trim(w, begin, length) ==
    IF begin = None /\ length = None THEN w
    ELSE IF w.audio_length = None \/ w.audio_sample_rate = None
              \/ w.samples = None
    THEN Raise(w, "TypeError")
    ELSE LET dur == Val(w.audio_length)
             rate == Val(w.audio_sample_rate)
             b == TrimBegin(begin, dur)
             l == TrimLength(length, b, dur)
         IN  TrimSlice(w, SampleIndex(b, rate), SampleIndex(DecAdd(b, l), rate))

-----------------------------------------------------------------------------
(* The calls *)

\* the sequences of at most n values of S
RECURSIVE SeqsUpTo(_, _)
SeqsUpTo(S, n) ==
    IF n = 0 THEN { << >> }
    ELSE LET shorter == SeqsUpTo(S, n - 1)
         IN  shorter \cup { Append(q, x) : q \in shorter, x \in S }

\* the samples a caller appends: 1.5 int16 steps, and 0.5
AddValues == { 3, SampleUnit \div 2 }
AddInputs == SeqsUpTo(AddValues, 2)

\* the times a caller passes to trim
TrimTimes == { None, Some(-DecScale), Some(DecScale \div 2), Some(DecScale) }

\* what may happen during a call that may load the samples: the file is
\* not readable, ffmpeg cannot be called, ffmpeg rejects the file,
\* scipywavread rejects the file, or all goes well
LoadEnvs ==
    { [EnvOk EXCEPT !.readable = FALSE],
      [EnvOk EXCEPT !.convert = "FFMPEGPathError"],
      [EnvOk EXCEPT !.convert = "OSError"],
      [EnvOk EXCEPT !.decode = "ValueError"],
      EnvOk }

\* the same, when ffmpeg and scipywavread do their work
BufferEnvs == { [EnvOk EXCEPT !.readable = FALSE], EnvOk }

\* during read_properties
ProbeEnvs ==
    { [EnvOk EXCEPT !.readable = FALSE],
      [EnvOk EXCEPT !.probe = "FFPROBEPathError"],
      [EnvOk EXCEPT !.probe = "FFPROBEUnsupportedFormatError"],
      EnvOk }

\* during write
WriteOnly ==
    { [EnvOk EXCEPT !.encode = "Exception"], [EnvOk EXCEPT !.saturate = TRUE] }

\* a call ends in w; hist is what add_samples was given so far, given is
\* what this call gave add_samples
Call(w, hist, given) ==
    /\ file_path' = w.file_path
    /\ file_format' = w.file_format
    /\ file_size' = w.file_size
    /\ audio_length' = w.audio_length
    /\ audio_format' = w.audio_format
    /\ audio_sample_rate' = w.audio_sample_rate
    /\ audio_channels' = w.audio_channels
    /\ samples_capacity' = w.samples_capacity
    /\ samples_length' = w.samples_length
    /\ samples' = w.samples
    /\ source_deleted' = w.source_deleted
    /\ tmp_files' = w.tmp_files
    /\ last' = [exc |-> w.exc, load |-> w.load, realloc |-> w.realloc,
                added |-> given]
    /\ appended' = hist
    /\ UNCHANGED <<safety_checks, source>>

PreallocateMemory(capacity) ==
    Call(preallocate_memory(Self, capacity), None, None)

MinimizeMemory == Call(minimize_memory(Self), None, None)

AddSamples(new, rev) ==
    /\ samples_length + Len(new) <= MaxLen
    /\ Call(add_samples(Self, new, rev),
            IF appended = None THEN None
            ELSE Some(Val(appended) \o
                      [i \in 1..Len(new) |->
                          IF rev THEN new[Len(new) + 1 - i] ELSE new[i]]),
            Some([samples |-> new, reverse |-> rev]))

Reverse(env) == Call(reverse(Self, env), None, None)

Trim(begin, length) == Call(trim(Self, begin, length), None, None)

ClearData == Call(clear_data(Self), Some(<< >>), None)

ReadSamplesFromFile(env) == Call(read_samples_from_file(Self, env), None, None)

ReadProperties(env) == Call(read_properties(Self, env), None, None)

AudioSamples(env) == Call(audio_samples(Self, env), None, None)

Write(env) == Call(write(Self, env), None, None)

\* AudioFile(file_path, file_format, rconf) on the file src
Constructed(path, fmt, checks, src) ==
    /\ file_path = path
    /\ file_format = fmt
    /\ file_size = None
    /\ audio_length = None
    /\ audio_format = None
    /\ audio_sample_rate = None
    /\ audio_channels = None
    /\ samples_capacity = 0
    /\ samples_length = 0
    /\ samples = None
    /\ safety_checks = checks
    /\ source = src
    /\ source_deleted = FALSE
    /\ tmp_files = 0
    /\ last = [exc |-> "", load |-> "no", realloc |-> FALSE, added |-> None]
    /\ appended = Some(<< >>)

\* a handle built in memory, a handle on a file of unknown format, and a
\* handle on a file declared canonical
Init ==
    \/ Constructed(None, None, TRUE, OtherRateWave)
    \/ \E fmt \in { None, Some(CanonicalFormat) } :
          Constructed(Some("audio"), fmt, TRUE, OtherRateWave)

\* The calls on the buffer.  The failures of an explicit load, of the probe
\* and of the WAVE writer are explored in LoaderSpec and WriterSpec.
Next ==
    \/ \E capacity \in -1..MaxCapacity : PreallocateMemory(capacity)
    \/ MinimizeMemory
    \/ \E new \in AddInputs, rev \in BOOLEAN : AddSamples(new, rev)
    \/ \E env \in BufferEnvs : Reverse(env)
    \/ \E begin \in TrimTimes, length \in TrimTimes : Trim(begin, length)
    \/ ClearData
    \/ ReadSamplesFromFile(EnvOk)
    \/ ReadProperties(EnvOk)
    \/ \E env \in BufferEnvs : AudioSamples(env)
    \/ \E env \in BufferEnvs : Write(env)

Spec == Init /\ [][Next]_vars

\* The loader alone, for every file_format, safety_checks and source
LoaderInit ==
    \E path \in { None, Some("audio") }, fmt \in FileFormats,
       checks \in BOOLEAN, src \in Sources :
        Constructed(path, fmt, checks, src)

LoaderNext ==
    \/ \E env \in LoadEnvs : ReadSamplesFromFile(env)
    \/ \E env \in LoadEnvs : AudioSamples(env)
    \/ \E env \in LoadEnvs : Reverse(env)
    \/ \E env \in LoadEnvs \cup WriteOnly : Write(env)
    \/ \E env \in ProbeEnvs : ReadProperties(env)
    \/ ClearData

LoaderSpec == LoaderInit /\ [][LoaderNext]_vars

\* The writer: a handle on a file, whose samples are loaded, cleared and
\* replaced by samples the caller appends (1.5 int16 steps, 1.0 and -1.0),
\* then written
WriteValues == { 3, SampleUnit, -SampleUnit }
WriteInputs == SeqsUpTo(WriteValues, 2)

WriterInit ==
    \E fmt \in { None, Some(CanonicalFormat) } :
        Constructed(Some("audio"), fmt, TRUE, OtherRateWave)

WriterNext ==
    \/ \E env \in BufferEnvs : AudioSamples(env)
    \/ ClearData
    \/ \E new \in WriteInputs : AddSamples(new, FALSE)
    \/ \E env \in BufferEnvs : Reverse(env)
    \/ \E env \in BufferEnvs \cup WriteOnly : Write(env)

WriterSpec == WriterInit /\ [][WriterNext]_vars

-----------------------------------------------------------------------------
(* Claims *)

\* C1: in every reachable state 0 <= samples_length <= samples_capacity <=
\* size of the storage array, with length = capacity = 0 while the storage is
\* absent.
C1_LengthWithinCapacity ==
    IF samples = None
    THEN samples_length = 0 /\ samples_capacity = 0
    ELSE /\ 0 <= samples_length
         /\ samples_length <= samples_capacity
         /\ samples_capacity <= Len(Val(samples))

\* C2: in every reachable state in which the storage is allocated and
\* audio_sample_rate is set, audio_length equals
\* samples_length / audio_sample_rate.
C2_LengthIsQuotient ==
    (samples # None /\ audio_sample_rate # None) =>
        audio_length = Some(DecDiv(samples_length, Val(audio_sample_rate)))

\* the samples of the file as a load leaves them in storage: the int16
\* values of the converted file or of the file itself, over 32768
FileSamples(how) ==
    LET pcm == IF how = "convert" THEN source.conv_pcm ELSE source.pcm
    IN  [i \in 1..Len(pcm) |-> pcm[i] * (SampleUnit \div Int16Scale)]

Backwards(a) == [i \in 1..Len(a) |-> a[Len(a) + 1 - i]]

\* C3: audio_samples, reverse and write, called while the storage is absent:
\* with no path they fail with AudioFileNotInitializedError and change no
\* field; with a path they run read_samples_from_file first and, when that
\* succeeds, act on the loaded buffer.
C3_LoadOrNotInitialized ==
    [][\A env \in LoadEnvs \cup WriteOnly :
        /\ (AudioSamples(env) \/ Reverse(env) \/ Write(env)) =>
              /\ (samples = None /\ file_path = None) =>
                    /\ last'.exc = "AudioFileNotInitializedError"
                    /\ UNCHANGED <<handle, world>>
              /\ (samples = None /\ file_path # None) =>
                    /\ last'.load # "no"
                    /\ last'.exc = "" => last'.load \in {"convert", "direct"}
        /\ (samples = None /\ file_path # None /\ last'.exc = "") =>
              /\ AudioSamples(env) =>
                    /\ samples' = Some(FileSamples(last'.load))
                    /\ audio_samples(Self, env).ret
                           = Some(FileSamples(last'.load))
              /\ Reverse(env) =>
                    samples' = Some(Backwards(FileSamples(last'.load)))
              /\ Write(env) =>
                    /\ samples' = Some(FileSamples(last'.load))
                    /\ write(Self, env).out # None
                    /\ Val(write(Self, env).out).data
                           = (IF last'.load = "convert" THEN source.conv_pcm
                              ELSE source.pcm)
      ]_vars

\* reverse was called on a handle with a path and no samples: the samples
\* were loaded, then reversed
C3_Witness ==
    /\ last.load \in {"convert", "direct"}
    /\ last.exc = ""
    /\ samples = Some(Backwards(FileSamples(last.load)))
    /\ Backwards(FileSamples(last.load)) # FileSamples(last.load)

\* C4: no temporary file is left once read_samples_from_file has returned or
\* raised.
C4_NoTemporaryFileLeft == tmp_files = 0

C6_SourceNeverDeleted == ~source_deleted

\* the samples were read from the file itself, and the file is still there
C6_Witness ==
    /\ last.load = "direct"
    /\ last.exc = ""
    /\ samples = Some(FileSamples("direct"))
    /\ ~source_deleted

\* C7: add_samples(samples, reverse) with n = len(samples) and old length L
\* leaves slots [0, L) unchanged, sets slots [L, L+n) to samples (reversed
\* iff reverse) and sets the length to L+n; after add_samples calls alone on
\* an empty buffer, the length is the sum of the lengths given and the
\* samples are the concatenation of what was given.
C7_AddSamplesAppends ==
    /\ [](appended # None =>
            /\ samples_length = Len(Val(appended))
            /\ samples # None =>
                  SubSeq(Val(samples), 1, samples_length) = Val(appended))
    /\ [][last'.added # None =>
              LET new == Val(last'.added).samples
                  rev == Val(last'.added).reverse
                  L == samples_length
                  n == Len(new)
                  after == Val(samples')
              IN  /\ samples_length' = L + n
                  /\ Len(after) >= L + n
                  /\ samples # None =>
                        \A i \in 1..Min(L, Len(Val(samples))) :
                            after[i] = Val(samples)[i]
                  /\ \A j \in 1..n :
                        after[L + j] = IF rev THEN new[n + 1 - j] ELSE new[j]
        ]_vars

\* two add_samples calls on an empty buffer, the second without growing it
C7_Witness ==
    /\ appended = Some(<<3, SampleUnit \div 2>>)
    /\ samples_length = 2
    /\ last.added = Some([samples |-> <<SampleUnit \div 2>>, reverse |-> TRUE])
    /\ ~last.realloc

\* C8 as stated: add_samples calls preallocate_memory only when the capacity
\* is smaller than length + n.
C8_GrowsOnlyWhenTooSmall ==
    [][(last'.added # None /\ last'.realloc) =>
          samples_capacity < samples_length + Len(Val(last'.added).samples)
      ]_vars

\* C8 as amended: add_samples calls preallocate_memory exactly when the
\* storage is absent or the capacity is smaller than length + n, and then
\* sets the capacity to 2 * (length + n), which is more than twice the
\* previous capacity unless length + n = 0; otherwise the capacity is
\* unchanged.  With capacity 0, appending 4 samples gives length 4 and
\* capacity 8.
C8_GrowsWhenAbsentOrTooSmall ==
    /\ [](samples = None =>
            LET w == add_samples(Self, <<3, 3, 3, 3>>, FALSE)
            IN  w.samples_length = 4 /\ w.samples_capacity = 8)
    /\ [][last'.added # None =>
              LET future == samples_length + Len(Val(last'.added).samples)
              IN  /\ last'.realloc <=>
                        (samples = None \/ samples_capacity < future)
                  /\ last'.realloc =>
                        /\ samples_capacity' = 2 * future
                        /\ Len(Val(samples')) = 2 * future
                        /\ future > 0 => samples_capacity' > 2 * samples_capacity
                  /\ ~last'.realloc =>
                        /\ samples_capacity' = samples_capacity
                        /\ Len(Val(samples')) = Len(Val(samples))
        ]_vars

\* add_samples was given no samples while the storage was absent: it
\* allocated an empty array
C8_Witness ==
    /\ last.added # None
    /\ last.realloc
    /\ samples = Some(<< >>)
    /\ samples_capacity = 0

\* C9: preallocate_memory(capacity) with capacity >= 0 on an allocated
\* buffer resizes the storage to capacity slots, keeps the values of slots
\* [0, min(length, capacity)), fills every added slot with zero, sets
\* length = min(length, capacity) and the capacity as asked; on an
\* unallocated buffer it creates capacity zero slots with length 0.
C9_PreallocateZeroFills ==
    [][\A capacity \in 0..MaxCapacity :
          PreallocateMemory(capacity) =>
              /\ samples_capacity' = capacity
              /\ Len(Val(samples')) = capacity
              /\ IF samples = None
                 THEN /\ samples_length' = 0
                      /\ \A i \in 1..capacity : Val(samples')[i] = 0
                 ELSE /\ samples_length' = Min(samples_length, capacity)
                      /\ \A i \in 1..Min(Min(samples_length, capacity),
                                         Len(Val(samples))) :
                            Val(samples')[i] = Val(samples)[i]
                      /\ \A i \in (Len(Val(samples)) + 1)..capacity :
                            Val(samples')[i] = 0
      ]_vars

\* C10: preallocate_memory(capacity) with capacity < 0 fails with ValueError
\* in every state and changes nothing.
C10_NegativeCapacityRejected ==
    /\ [](preallocate_memory(Self, -1).exc = "ValueError")
    /\ [][PreallocateMemory(-1) =>
            /\ last'.exc = "ValueError"
            /\ UNCHANGED <<handle, world>>
        ]_vars

\* a negative capacity was refused on a buffer that holds samples (trim,
\* the other source of a ValueError, cannot run without audio_length)
C10_Witness ==
    /\ last.exc = "ValueError"
    /\ audio_length = None
    /\ samples # None
    /\ samples_length > 0

\* the buffer holds samples, audio_length is samples_length over the sample
\* rate, and the samples are within the storage
Populated ==
    /\ samples # None
    /\ audio_sample_rate # None
    /\ audio_length = Some(DecDiv(samples_length, Val(audio_sample_rate)))
    /\ samples_length <= Len(Val(samples))

Clamp(x, lo, hi) == IF x < lo THEN lo ELSE IF x > hi THEN hi ELSE x

C12_ViewIsFirstLengthSlots ==
    samples # None =>
        LET view == Val(audio_samples(Self, EnvOk).ret)
        IN  /\ Len(view) = samples_length
            /\ \A i \in 1..samples_length : view[i] = Val(samples)[i]

\* C13: clear_data always succeeds and leaves the storage absent with
\* length 0 and capacity 0; after it, on a handle without a path
\* audio_samples, reverse and write fail with AudioFileNotInitializedError,
\* and on a handle with a path they load the samples again, with the
\* conversion decision and the samples of the load that came before
\* clear_data.
C13_ClearedBehavesLikeSourceOnly ==
    LET cleared == [clear_data(Self) EXCEPT !.load = "no"]
        again == { audio_samples(cleared, EnvOk), reverse(cleared, EnvOk),
                   write(cleared, EnvOk) }
    IN  /\ cleared.exc = ""
        /\ cleared.samples = None
        /\ cleared.samples_length = 0
        /\ cleared.samples_capacity = 0
        /\ file_path = None =>
              \A w \in again : w.exc = "AudioFileNotInitializedError"
        /\ (file_path # None /\ samples # None /\ last.exc = ""
                /\ last.load \in {"convert", "direct"}) =>
              /\ \A w \in again : w.exc = "" /\ w.load = last.load
              /\ audio_samples(cleared, EnvOk).samples = samples
              /\ write(cleared, EnvOk).samples = samples
              /\ reverse(cleared, EnvOk).samples = Some(Backwards(Val(samples)))

\* C14: while a handle holds samples, audio_samples, reverse and write never
\* run read_samples_from_file: the samples are loaded once, by whichever of
\* the three came first, until clear_data is called.
C14_LoadedOnce ==
    [][\A env \in LoadEnvs \cup WriteOnly :
          (samples # None /\ (AudioSamples(env) \/ Reverse(env) \/ Write(env)))
              => /\ last'.load = "no"
                 /\ UNCHANGED <<world, file_format, samples_length,
                                samples_capacity>>
      ]_vars

\* the converted samples of a file, loaded on first access and still there,
\* in the order of the file, after a later call that loaded nothing
C14_Witness ==
    /\ file_path # None
    /\ file_size = None
    /\ source = OtherRateWave
    /\ samples = Some(FileSamples("convert"))
    /\ last.load = "no"
    /\ last.exc = ""

\* C15: read_properties never loads the samples and never changes the
\* buffer: whether it returns or raises, the storage, samples_length and
\* samples_capacity are as before the call, and so is the path.
C15_ProbeLeavesBuffer ==
    \A env \in ProbeEnvs :
        LET w == read_properties(Self, env)
        IN  /\ w.samples = samples
            /\ w.samples_length = samples_length
            /\ w.samples_capacity = samples_capacity
            /\ w.file_path = file_path
            /\ w.load = "no"
            /\ w.tmp_files = tmp_files

\* the properties of the file were read while the buffer held one appended
\* sample, which is still there
C15_Witness ==
    /\ file_size # None
    /\ audio_format = Some("pcm_s16le")
    /\ last.exc = ""
    /\ last.load = "no"
    /\ samples = Some(<<3, 0>>)
    /\ samples_length = 1
    /\ samples_capacity = 2

\* C16: on a buffer with samples, reverse reverses the slots
\* [0, samples_length) and leaves samples_length, samples_capacity and the
\* slots from samples_length on unchanged; reverse applied twice gives back
\* the original storage.
C16_ReverseTwice ==
    samples # None =>
        LET once == reverse(Self, EnvOk)
            twice == reverse(once, EnvOk)
            old == Val(samples)
            n == IF samples_length <= Len(old) THEN samples_length
                 ELSE Len(old)
        IN  /\ once.exc = "" /\ twice.exc = ""
            /\ once.samples_length = samples_length
            /\ once.samples_capacity = samples_capacity
            /\ Len(Val(once.samples)) = Len(old)
            /\ \A i \in 1..n : Val(once.samples)[i] = old[n + 1 - i]
            /\ \A i \in (n + 1)..Len(old) : Val(once.samples)[i] = old[i]
            /\ twice.samples = samples
            /\ twice.samples_length = samples_length
            /\ twice.samples_capacity = samples_capacity

\* two samples were appended to a buffer of four slots, then reversed: the
\* two unused slots are as they were
C16_Witness ==
    /\ samples = Some(<<SampleUnit \div 2, 3, 0, 0>>)
    /\ samples_length = 2
    /\ samples_capacity = 4
    /\ appended = None
    /\ last.added = None
    /\ last.exc = ""

\* C17: on a populated buffer, after trim(begin, length) the duration differs
\* from the clamped length asked for by less than one sample period, and a
\* second trim with begin = 0 and length = the duration then read leaves
\* samples_length and the samples unchanged.
C17_TrimIdempotent ==
    Populated =>
      \A begin \in TrimTimes, length \in TrimTimes :
        (begin # None \/ length # None) =>
           LET dur == Val(audio_length)
               rate == Val(audio_sample_rate)
               b == Clamp(IF begin = None THEN 0 ELSE Val(begin), 0, dur)
               rest == DecSub(dur, b)
               l == Clamp(IF length = None THEN rest ELSE Val(length), 0, rest)
               first == trim(Self, begin, length)
               read_back == Val(first.audio_length)
               second == trim(first, Some(0), first.audio_length)
               kept == first.samples_length
           IN  /\ (read_back - l) * rate < DecScale
               /\ (l - read_back) * rate < DecScale
               /\ second.exc = ""
               /\ second.samples_length = kept
               /\ SubSeq(Val(second.samples), 1, kept)
                     = SubSeq(Val(first.samples), 1, kept)

\* round(f * 32768) for the sample f, clamped to the int16 range
RoundedInt16(v) ==
    Clamp(RoundHalfEven(v, SampleUnit \div Int16Scale),
          -Int16Scale, Int16Scale - 1)

\* the samples lie in [-1.0, 1.0], and the handle has samples and a sample
\* rate
Writable ==
    /\ samples # None
    /\ audio_sample_rate # None
    /\ samples_length <= Len(Val(samples))
    /\ \A i \in 1..samples_length :
          Val(samples)[i] >= -SampleUnit /\ Val(samples)[i] <= SampleUnit

\* C18: write hands every sample f in [-1.0, 1.0] to the WAVE writer as
\* round(f * 32768) clamped to [-32768, 32767], and a load stores every
\* int16 value i of the file as i / 32768.
C18_Int16Conversion ==
    /\ LET w == read_samples_from_file(Self, EnvOk)
       IN  w.exc = "" => w.samples = Some(FileSamples(w.load))
    /\ Writable =>
          \A env \in { EnvOk } \cup WriteOnly :
              LET w == write(Self, env)
              IN  w.out # None =>
                    /\ Len(Val(w.out).data) = samples_length
                    /\ \A i \in 1..samples_length :
                          Val(w.out).data[i] = RoundedInt16(Val(samples)[i])

\* C19: for every buffer of samples in [-1.0, 1.0], the file that write
\* produces, read back by a load, gives a buffer of the same length whose
\* samples differ from the original ones by at most 1/32768.
C19_RoundTrip ==
    Writable =>
        \A env \in { EnvOk } \cup WriteOnly :
            LET w == write(Self, env)
                back == Normalized(Val(w.out).data)
                step == SampleUnit \div Int16Scale
            IN  w.out # None =>
                  /\ Len(back) = samples_length
                  /\ \A i \in 1..samples_length :
                        /\ back[i] - Val(samples)[i] <= step
                        /\ Val(samples)[i] - back[i] <= step

\* C20: in every state and for every capacity >= 0, preallocate_memory
\* called a second time with the same capacity changes nothing:
\* samples_length, samples_capacity and the slots below samples_length are
\* as after the first call.
C20_PreallocateTwice ==
    \A capacity \in 0..MaxCapacity :
        LET first == preallocate_memory(Self, capacity)
            second == preallocate_memory(first, capacity)
            kept == first.samples_length
        IN  /\ first.exc = "" /\ second.exc = ""
            /\ kept <= capacity
            /\ second.samples_length = kept
            /\ second.samples_capacity = first.samples_capacity
            /\ Len(Val(second.samples)) = Len(Val(first.samples))
            /\ \A i \in 1..kept :
                  Val(second.samples)[i] = Val(first.samples)[i]

\* a buffer of one slot holding one sample was given two slots, and a
\* second preallocate_memory(2) leaves it as it is
C20_Witness ==
    /\ samples = Some(<<3, 3>>)
    /\ samples_length = 1
    /\ samples_capacity = 2
    /\ last.added = None
    /\ last.exc = ""
    /\ preallocate_memory(Self, 2).samples = samples
    /\ preallocate_memory(Self, 2).samples_length = 1

\* C21: on a handle with a path and no samples, trim with at least one
\* argument given loads the samples first and then slices them: it does not
\* fail, and the handle holds samples afterwards.
C21_TrimLoadsFirst ==
    (samples = None /\ file_path # None) =>
        \A begin \in TrimTimes, length \in TrimTimes :
            (begin # None \/ length # None) =>
                LET w == trim(Self, begin, length)
                IN  /\ w.exc = ""
                    /\ w.load \in {"convert", "direct"}
                    /\ w.samples # None

\* C22: a read_samples_from_file that succeeds, called directly or by
\* audio_samples, reverse or write, ends with samples_capacity =
\* samples_length = the number of samples decoded, audio_format = "pcm16",
\* audio_channels = 1, audio_sample_rate = the rate of the file decoded (the
\* converted file when the file was converted), and file_format = the
\* canonical triple when the file was converted, unchanged when it was not.
C22_LoadPostconditions ==
    [][(last'.load \in {"convert", "direct"}
            /\ last'.exc \notin {"AudioFileConverterError",
                                 "AudioFileUnsupportedFormatError"}) =>
          LET converted == last'.load = "convert"
              count == IF converted THEN Len(source.conv_pcm)
                       ELSE Len(source.pcm)
          IN  /\ samples_capacity' = count
              /\ samples_length' = count
              /\ Len(Val(samples')) = count
              /\ audio_format' = Some("pcm16")
              /\ audio_channels' = Some(1)
              /\ audio_sample_rate' =
                    Some(IF converted THEN RconfSampleRate ELSE source.rate)
              /\ file_format' =
                    (IF converted
                     THEN Some(<<"pcm_s16le", 1, RconfSampleRate>>)
                     ELSE file_format)
      ]_vars

\* a file of three samples at 3 Hz, of unknown format, was converted and
\* loaded: two samples at the configured rate
C22_Witness ==
    /\ source = OtherRateWave
    /\ last.load = "convert"
    /\ last.exc = ""
    /\ file_format = Some(CanonicalFormat)
    /\ audio_sample_rate = Some(RconfSampleRate)
    /\ audio_format = Some("pcm16")
    /\ audio_channels = Some(1)
    /\ samples_length = 2
    /\ samples_capacity = 2
    /\ tmp_files = 0

\* C23: a read_samples_from_file that fails (file not readable, ffmpeg not
\* callable, conversion rejected, decode failure) leaves the storage,
\* samples_length and samples_capacity as they were; a handle with a path
\* and no samples stays without samples, and the next access to the samples
\* runs the load again.
C23_FailedLoadLeavesBuffer ==
    /\ \A env \in LoadEnvs :
          LET w == read_samples_from_file(Self, env)
          IN  w.exc # "" =>
                /\ w.samples = samples
                /\ w.samples_length = samples_length
                /\ w.samples_capacity = samples_capacity
                /\ (samples = None /\ file_path # None) =>
                      \A again \in LoadEnvs :
                          audio_samples([w EXCEPT !.exc = "", !.load = "no"],
                                        again).load # "no"
    /\ (last.load # "no"
           /\ last.exc \in {"AudioFileConverterError",
                            "AudioFileUnsupportedFormatError"}
           /\ file_size = None /\ audio_sample_rate = None) =>
          samples = None /\ samples_length = 0 /\ samples_capacity = 0

\* the file was converted, scipywavread rejected the converted file, and
\* the handle is still without samples
C23_Witness ==
    /\ last.load = "convert"
    /\ last.exc = "AudioFileUnsupportedFormatError"
    /\ file_format = Some(CanonicalFormat)
    /\ audio_format = Some("pcm16")
    /\ audio_sample_rate = None
    /\ samples = None
    /\ samples_length = 0
    /\ samples_capacity = 0

====
